---- MODULE Spec2Model ----
(***************************************************************************)
(* IsolatedPromiseBuffer of the edge transport (packages/.../transports):  *)
(* a promise buffer that collects task producers until drain is called.    *)
(*                                                                         *)
(* Producers are identified by the ordinal of the add call that offered    *)
(* them (1, 2, ...); drain calls ("episodes") likewise.  A producer is a   *)
(* () => PromiseLike: invoking it returns a future that later fulfils or   *)
(* rejects.  Time is abstract: a timer may fire at any macrotask boundary  *)
(* after it was armed.                                                     *)
(***************************************************************************)
EXTENDS Integers, Sequences, FiniteSets, TLC

\* ---- bounds of the model ------------------------------------------------
MaxAdds == 2          \* add calls made on the buffer
MaxDrains == 2        \* drain calls made on the buffer
MaxBufferSize == 1    \* largest explicit _bufferSize constructor argument

\* ---- program constants --------------------------------------------------
DEFAULT_TRANSPORT_BUFFER_SIZE == 30

\* An optional JS argument: <<>> is undefined, <<n>> is the number n.
Undefined == <<>>

Producers == 1..MaxAdds
Episodes == 1..MaxDrains

BufferSizeArgs == {Undefined} \cup {<<n>> : n \in 0..MaxBufferSize}
\* drain only tests `timeout && timeout > 0` and time is abstract, so one
\* value of each kind stands for the timeout argument: absent, negative,
\* zero, positive.
TimeoutArgs == {Undefined, <<-1>>, <<0>>, <<1>>}

VARIABLES
  bufferSize,      \* this._bufferSize
  taskProducers,   \* this._taskProducers, a sequence of producer ids
  nAdds,           \* number of add calls made so far
  addResult,       \* addResult[p]: the future returned by the p-th add call
  outcome,         \* outcome[p]: the future returned by taskProducer()
  wrapped,         \* wrapped[p]: taskProducer().then(null, () => {})
  invokeLog,       \* producers in the order taskProducer() was called
  nDrains,         \* number of drain calls made so far
  drainTasks,      \* drainTasks[d]: oldTaskProducers of the d-th drain
  drainTimeout,    \* drainTimeout[d]: the timeout argument of the d-th drain
  drainResult,     \* drainResult[d]: the future returned by the d-th drain
  timer,           \* timer[d]: the setTimeout timer of the d-th drain
  allDone,         \* allDone[d]: the Promise.all(...).then callback has run
  addsSinceDrain,  \* history: add calls made since the latest drain call
  lateSettle,      \* history: producers that settled after their drain resolved
  options,         \* the EdgeTransportOptions makeEdgeTransport was called with
  fetchCall        \* the latest fetch(url, init) call of makeRequest, if any

vars == <<bufferSize, taskProducers, nAdds, addResult, outcome, wrapped,
          invokeLog, nDrains, drainTasks, drainTimeout, drainResult, timer,
          allDone, addsSinceDrain, lateSettle, options, fetchCall>>

\* the state of the transport outside the buffer
reqVars == <<options, fetchCall>>

Range(s) == {s[i] : i \in 1..Len(s)}

\* ---- transport options and requests --------------------------------------
\* headers?: { [key: string]: string }
HeaderNames == {"authorization", "x-custom"}
HeaderValues == {"v1", "v2"}
HeaderMaps == UNION {[S -> HeaderValues] : S \in SUBSET HeaderNames}
HeadersArgs == {Undefined} \cup {<<h>> : h \in HeaderMaps}

\* one optional field of an object: absent, or present with one of vals
OptionalField(name, vals) == {<<>>} \cup {name :> v : v \in vals}

\* fetchOptions?: RequestInit, a partial object over these fields
RequestInits ==
  {m @@ r @@ b @@ h @@ k :
     m \in OptionalField("method", {"GET"}),
     r \in OptionalField("referrerPolicy", {"no-referrer"}),
     b \in OptionalField("body", {"overlay-body"}),
     h \in OptionalField("headers", {<<x>> : x \in HeaderMaps}),
     k \in OptionalField("keepalive", {"true"})}
FetchOptionsArgs == {Undefined} \cup {<<f>> : f \in RequestInits}

\* EdgeTransportOptions { url, headers?, fetchOptions?, bufferSize? }
TransportOptions(headers, fetchOptions, size) ==
  [url |-> "https://sentry.example/api/1/envelope/", headers |-> headers,
   fetchOptions |-> fetchOptions, bufferSize |-> size]

AllOptions ==
  {TransportOptions(h, f, b) :
     h \in HeadersArgs, f \in FetchOptionsArgs, b \in BufferSizeArgs}

\* TransportRequest { body }
Requests == {[body |-> "envelope-1"], [body |-> "envelope-2"]}

\* ---- constructor --------------------------------------------------------
\* constructor(_bufferSize = DEFAULT_TRANSPORT_BUFFER_SIZE)
ConstructorBufferSize(arg) ==
  IF arg = Undefined THEN DEFAULT_TRANSPORT_BUFFER_SIZE ELSE arg[1]

\* makeEdgeTransport(opts): createTransport(options, makeRequest,
\*   new IsolatedPromiseBuffer(options.bufferSize))
InitWith(opts) ==
  /\ options = opts
  /\ fetchCall = Undefined
  /\ bufferSize = ConstructorBufferSize(opts.bufferSize)
  /\ taskProducers = <<>>
  /\ nAdds = 0
  /\ addResult = [p \in Producers |-> "none"]
  /\ outcome = [p \in Producers |-> "none"]
  /\ wrapped = [p \in Producers |-> "none"]
  /\ invokeLog = <<>>
  /\ nDrains = 0
  /\ drainTasks = [d \in Episodes |-> <<>>]
  /\ drainTimeout = [d \in Episodes |-> Undefined]
  /\ drainResult = [d \in Episodes |-> "none"]
  /\ timer = [d \in Episodes |-> "none"]
  /\ allDone = [d \in Episodes |-> FALSE]
  /\ addsSinceDrain = 0
  /\ lateSettle = {}

\* a transport without headers and fetchOptions, of any buffer size
Init == \E arg \in BufferSizeArgs : InitWith(TransportOptions(Undefined, Undefined, arg))

\* ---- add ----------------------------------------------------------------
\* this._taskProducers.length >= this._bufferSize
BufferIsFull_off_by_one(tp, size) == Len(tp) > size

BufferIsFull(tp, size) == Len(tp) >= size

\* add variant that starts the task at once, as an ordinary promise buffer does
add_eager(p) ==
  /\ nAdds < MaxAdds
  /\ p = nAdds + 1
  /\ nAdds' = p
  /\ addsSinceDrain' = addsSinceDrain + 1
  /\ IF BufferIsFull(taskProducers, bufferSize)
       THEN /\ addResult' = [addResult EXCEPT ![p] = "rejected_buffer_full"]
            /\ UNCHANGED <<taskProducers, outcome, wrapped, invokeLog>>
       ELSE /\ taskProducers' = Append(taskProducers, p)
            /\ addResult' = [addResult EXCEPT ![p] = "resolved"]
            /\ outcome' = [outcome EXCEPT ![p] = "running"]
            /\ wrapped' = [wrapped EXCEPT ![p] = "pending"]
            /\ invokeLog' = Append(invokeLog, p)
  /\ UNCHANGED <<bufferSize, nDrains, drainTasks, drainTimeout,
                 drainResult, timer, allDone, lateSettle>>
  /\ UNCHANGED reqVars

\* add variant that rejects but still keeps the producer
add_keep_rejected(p) ==
  /\ nAdds < MaxAdds
  /\ p = nAdds + 1
  /\ nAdds' = p
  /\ addsSinceDrain' = addsSinceDrain + 1
  /\ taskProducers' = Append(taskProducers, p)
  /\ IF BufferIsFull(taskProducers, bufferSize)
       THEN addResult' = [addResult EXCEPT ![p] = "rejected_buffer_full"]
       ELSE addResult' = [addResult EXCEPT ![p] = "resolved"]
  /\ UNCHANGED <<bufferSize, outcome, wrapped, invokeLog, nDrains, drainTasks,
                 drainTimeout, drainResult, timer, allDone, lateSettle>>
  /\ UNCHANGED reqVars

\* add variant whose future follows the task instead of resolving at once
add_returns_task(p) ==
  /\ nAdds < MaxAdds
  /\ p = nAdds + 1
  /\ nAdds' = p
  /\ addsSinceDrain' = addsSinceDrain + 1
  /\ IF BufferIsFull(taskProducers, bufferSize)
       THEN /\ addResult' = [addResult EXCEPT ![p] = "rejected_buffer_full"]
            /\ UNCHANGED taskProducers
       ELSE /\ taskProducers' = Append(taskProducers, p)
            /\ addResult' = [addResult EXCEPT ![p] = "pending"]
  /\ UNCHANGED <<bufferSize, outcome, wrapped, invokeLog, nDrains, drainTasks,
                 drainTimeout, drainResult, timer, allDone, lateSettle>>
  /\ UNCHANGED reqVars

\* public add(taskProducer): the p-th add call offers producer p
add(p) ==
  /\ nAdds < MaxAdds
  /\ p = nAdds + 1
  /\ nAdds' = p
  /\ addsSinceDrain' = addsSinceDrain + 1
  /\ IF BufferIsFull(taskProducers, bufferSize)
       THEN \* return Promise.reject(new SentryError(...))
            /\ addResult' = [addResult EXCEPT ![p] = "rejected_buffer_full"]
            /\ UNCHANGED taskProducers
       ELSE \* this._taskProducers.push(taskProducer); return Promise.resolve()
            /\ taskProducers' = Append(taskProducers, p)
            /\ addResult' = [addResult EXCEPT ![p] = "resolved"]
  /\ UNCHANGED <<bufferSize, outcome, wrapped, invokeLog, nDrains, drainTasks,
                 drainTimeout, drainResult, timer, allDone, lateSettle>>
  /\ UNCHANGED reqVars

\* ---- drain --------------------------------------------------------------
\* const oldTaskProducers = [...this._taskProducers]
OldTaskProducers == taskProducers

\* this._taskProducers = []  (variant: the assignment is missing)
PendingAfterDrain_kept == taskProducers

\* this._taskProducers = []
PendingAfterDrain == <<>>

\* if (timeout && timeout > 0)  (variant: the guard is missing)
TimeoutApplies_always(t) == TRUE

\* if (timeout && timeout > 0)  (variant: only the truthiness test)
TimeoutApplies_truthy(t) == t # Undefined /\ t[1] # 0

\* if (timeout && timeout > 0)  (variant: the timeout branch never resolves)
TimeoutApplies_never(t) == FALSE

\* if (timeout && timeout > 0)
TimeoutApplies(t) == (t # Undefined /\ t[1] # 0) /\ t[1] > 0

\* resolve(v) of the drain promise  (variant: a later call overwrites)
Resolve_overwrite(cur, v) == v

\* resolve(v) of the drain promise: only the first call takes effect
Resolve(cur, v) == IF cur = "unresolved" THEN v ELSE cur

\* taskProducer().then(null, () => {})  (variant: no rejection handler)
Swallow_no_catch(o) == IF o = "ok" THEN "fulfilled" ELSE "rejected"

\* taskProducer().then(null, () => {}): fulfilled whatever the outcome
Swallow(o) == "fulfilled"

\* Promise.all(...) of the wrapped futures  (variant: any one suffices)
AllFulfilled_any(d) ==
  \E i \in 1..Len(drainTasks[d]) : wrapped[drainTasks[d][i]] = "fulfilled"

\* Promise.all(...) of the wrapped futures  (variant: one list shared by all
\* drains, so a drain waits for every producer started so far)
AllFulfilled_shared(d) ==
  \A p \in Producers : wrapped[p] \in {"none", "fulfilled"}

\* Promise.all(...) of the wrapped futures  (variant: never fulfilled for an
\* empty list)
AllFulfilled_nonempty(d) ==
  /\ Len(drainTasks[d]) > 0
  /\ \A i \in 1..Len(drainTasks[d]) : wrapped[drainTasks[d][i]] = "fulfilled"

\* Promise.all(...) of the wrapped futures is fulfilled
AllFulfilled(d) ==
  \A i \in 1..Len(drainTasks[d]) : wrapped[drainTasks[d][i]] = "fulfilled"

\* the .then callback of Promise.all is queued as a microtask and has not run
ContinuationPending(d) ==
  /\ drainResult[d] # "none"
  /\ ~allDone[d]
  /\ AllFulfilled(d)

\* drain variant of a serializing queue: only the first detached producer is
\* started by the call
drain_serial(t) ==
  /\ nDrains < MaxDrains
  /\ LET d == nDrains + 1
         old == OldTaskProducers
         first == IF old = <<>> THEN <<>> ELSE <<Head(old)>>
     IN /\ nDrains' = d
        /\ taskProducers' = PendingAfterDrain
        /\ drainTasks' = [drainTasks EXCEPT ![d] = old]
        /\ drainTimeout' = [drainTimeout EXCEPT ![d] = t]
        /\ drainResult' = [drainResult EXCEPT ![d] = "unresolved"]
        /\ timer' = [timer EXCEPT ![d] = "armed"]
        /\ invokeLog' = invokeLog \o first
        /\ outcome' = [p \in Producers |->
                         IF p \in Range(first) THEN "running" ELSE outcome[p]]
        /\ wrapped' = [p \in Producers |->
                         IF p \in Range(old) THEN "pending" ELSE wrapped[p]]
  /\ addsSinceDrain' = 0
  /\ UNCHANGED <<bufferSize, nAdds, addResult, allDone, lateSettle>>
  /\ UNCHANGED reqVars

\* public drain(timeout): the d-th drain call
drain(t) ==
  /\ nDrains < MaxDrains
  /\ LET d == nDrains + 1
         old == OldTaskProducers
     IN /\ nDrains' = d
        /\ taskProducers' = PendingAfterDrain
        /\ drainTasks' = [drainTasks EXCEPT ![d] = old]
        /\ drainTimeout' = [drainTimeout EXCEPT ![d] = t]
        /\ drainResult' = [drainResult EXCEPT ![d] = "unresolved"]
        /\ timer' = [timer EXCEPT ![d] = "armed"]
        \* oldTaskProducers.map(taskProducer => taskProducer().then(...))
        /\ invokeLog' = invokeLog \o old
        /\ outcome' = [p \in Producers |->
                         IF p \in Range(old) THEN "running" ELSE outcome[p]]
        /\ wrapped' = [p \in Producers |->
                         IF p \in Range(old) THEN "pending" ELSE wrapped[p]]
  /\ addsSinceDrain' = 0
  /\ UNCHANGED <<bufferSize, nAdds, addResult, allDone, lateSettle>>
  /\ UNCHANGED reqVars

\* the future returned by taskProducer() settles (res is "ok" or "failed")
Settle(p, res) ==
  /\ outcome[p] = "running"
  /\ outcome' = [outcome EXCEPT ![p] = res]
  /\ wrapped' = [wrapped EXCEPT ![p] = Swallow(res)]
  /\ lateSettle' =
       IF \E d \in Episodes : /\ p \in Range(drainTasks[d])
                              /\ drainResult[d] \in {"true", "false"}
         THEN lateSettle \cup {p} ELSE lateSettle
  /\ UNCHANGED <<bufferSize, taskProducers, nAdds, addResult, invokeLog,
                 nDrains, drainTasks, drainTimeout, drainResult, timer,
                 allDone, addsSinceDrain>>
  /\ UNCHANGED reqVars

\* Promise.all(...).then(() => { clearTimeout(timer); resolve(true); })
AllSettled(d) ==
  /\ drainResult[d] # "none"
  /\ ~allDone[d]
  /\ AllFulfilled(d)
  /\ allDone' = [allDone EXCEPT ![d] = TRUE]
  /\ timer' = [timer EXCEPT ![d] = IF timer[d] = "armed" THEN "cleared"
                                                          ELSE timer[d]]
  /\ drainResult' = [drainResult EXCEPT ![d] = Resolve(drainResult[d], "true")]
  /\ UNCHANGED <<bufferSize, taskProducers, nAdds, addResult, outcome, wrapped,
                 invokeLog, nDrains, drainTasks, drainTimeout, addsSinceDrain,
                 lateSettle>>
  /\ UNCHANGED reqVars

\* setTimeout(() => { if (timeout && timeout > 0) resolve(false); }, timeout)
\* A timer callback is a macrotask: it runs only once the microtask queue,
\* which holds the continuations of fulfilled Promise.all futures, is empty.
TimerFire(d) ==
  /\ timer[d] = "armed"
  /\ \A e \in Episodes : ~ContinuationPending(e)
  /\ timer' = [timer EXCEPT ![d] = "fired"]
  /\ drainResult' =
       IF TimeoutApplies(drainTimeout[d])
         THEN [drainResult EXCEPT ![d] = Resolve(drainResult[d], "false")]
         ELSE drainResult
  /\ UNCHANGED <<bufferSize, taskProducers, nAdds, addResult, outcome, wrapped,
                 invokeLog, nDrains, drainTasks, drainTimeout, allDone,
                 addsSinceDrain, lateSettle>>
  /\ UNCHANGED reqVars

Next ==
  \/ \E p \in Producers : add(p)
  \/ \E t \in TimeoutArgs : drain(t)
  \/ \E p \in Producers, res \in {"ok", "failed"} : Settle(p, res)
  \/ \E d \in Episodes : AllSettled(d)
  \/ \E d \in Episodes : TimerFire(d)

Spec == Init /\ [][Next]_vars

\* new IsolatedPromiseBuffer(undefined): the buffer of a transport without
\* options.bufferSize
LiveInit == Init /\ bufferSize = DEFAULT_TRANSPORT_BUFFER_SIZE

\* the event loop makes progress: a producer's future settles, or a queued
\* Promise.all continuation runs
Progress ==
  \/ \E p \in Producers, res \in {"ok", "failed"} : Settle(p, res)
  \/ \E d \in Episodes : AllSettled(d)

\* Every started producer's future eventually settles, and a queued
\* microtask continuation eventually runs.  A settlement or continuation that
\* is enabled stays enabled until it is taken and there are finitely many of
\* them, so weak fairness of Progress is weak fairness of each of them.
FairSpec == LiveInit /\ [][Next]_vars /\ WF_vars(Progress)

TypeOK ==
  /\ bufferSize \in Nat
  /\ nAdds \in 0..MaxAdds
  /\ nDrains \in 0..MaxDrains
  /\ \A p \in Producers :
       /\ addResult[p] \in {"none", "resolved", "rejected_buffer_full"}
       /\ outcome[p] \in {"none", "running", "ok", "failed"}
       /\ wrapped[p] \in {"none", "pending", "fulfilled"}
  /\ \A d \in Episodes :
       /\ drainResult[d] \in {"none", "unresolved", "true", "false"}
       /\ timer[d] \in {"none", "armed", "fired", "cleared"}

\* ---- makeRequest ---------------------------------------------------------
\* { ...a, ...b }: the fields of both, b's value where both have the field
Spread(a, b) == b @@ a

\* ...options.fetchOptions (spreading undefined adds nothing)
Overlay(opts) ==
  IF opts.fetchOptions = Undefined THEN <<>> ELSE opts.fetchOptions[1]

\* the fixed fields of requestOptions, before the spread
FixedFields(opts, request) ==
  [body |-> request.body, method |-> "POST", referrerPolicy |-> "origin",
   headers |-> opts.headers]

\* requestOptions  (variant: the spread comes first, the fixed fields win)
RequestOptions_fixed_win(opts, request) ==
  Spread(Overlay(opts), FixedFields(opts, request))

\* requestOptions  (variant: the two header mappings are merged by name)
RequestOptions_merge_headers(opts, request) ==
  LET plain == Spread(FixedFields(opts, request), Overlay(opts))
  IN IF "headers" \in DOMAIN Overlay(opts) /\ opts.headers # Undefined
          /\ Overlay(opts)["headers"] # Undefined
       THEN Spread(plain, "headers" :>
              <<Spread(opts.headers[1], Overlay(opts)["headers"][1])>>)
       ELSE plain

\* const requestOptions: RequestInit = { body, method, referrerPolicy,
\*   headers: options.headers, ...options.fetchOptions }
RequestOptions(opts, request) ==
  Spread(FixedFields(opts, request), Overlay(opts))

\* makeRequest(request): fetch(options.url, requestOptions)
makeRequest(request) ==
  /\ fetchCall' = <<[url |-> options.url,
                     init |-> RequestOptions(options, request),
                     request |-> request]>>
  /\ UNCHANGED <<bufferSize, taskProducers, nAdds, addResult, outcome, wrapped,
                 invokeLog, nDrains, drainTasks, drainTimeout, drainResult,
                 timer, allDone, addsSinceDrain, lateSettle, options>>

\* a transport made with any options
ReqInit == \E opts \in AllOptions : InitWith(opts)

ReqNext == \E request \in Requests : makeRequest(request)

\* the requests a transport issues, for every configuration
ReqSpec == ReqInit /\ [][ReqNext]_vars

\* ---- helpers of the properties ------------------------------------------
Drained(d) == drainResult[d] # "none"

Tasks(d) == Range(drainTasks[d])

IsSettled(p) == outcome[p] \in {"ok", "failed"}

IsPositive(t) == t # Undefined /\ t[1] > 0

IsRejected(f) == f \in {"rejected_buffer_full", "rejected_network_failure"}

\* ---- C1 -----------------------------------------------------------------
\* C1: in every reachable state the number of pending (added, not yet
\* detached) task producers is at most the capacity of the buffer.
C1_PendingAtMostCapacity == Len(taskProducers) <= bufferSize

\* the pending list is full again after an earlier drain and a refused add
C1_Witness ==
  /\ bufferSize = MaxBufferSize
  /\ Len(taskProducers) = bufferSize
  /\ nDrains >= 1
  /\ \E d \in Episodes : timer[d] = "fired"
  /\ \E p \in Producers : IsSettled(p)

\* ---- C2 -----------------------------------------------------------------
\* C2: an add call made while the pending list holds exactly bufferSize
\* producers returns a future rejected with the buffer-full error and leaves
\* the pending list the same sequence; the refused producer is not appended.
C2_AddAtCapacityRejects ==
  [][(nAdds' = nAdds + 1 /\ Len(taskProducers) = bufferSize)
       => /\ addResult'[nAdds'] = "rejected_buffer_full"
          /\ taskProducers' = taskProducers
          /\ nAdds' \notin Range(taskProducers')]_vars

\* C successful adds, no drain, and the (C+1)-th add has been refused
C2_Witness ==
  /\ bufferSize >= 1
  /\ nDrains = 0
  /\ nAdds = bufferSize + 1
  /\ addResult[nAdds] = "rejected_buffer_full"
  /\ taskProducers = [i \in 1..bufferSize |-> i]

\* ---- C3 -----------------------------------------------------------------
\* C3: a drain call without a timeout eventually resolves true, however many
\* of its producers fail, provided every started producer's future settles.
C3_DrainNoTimeoutResolvesTrue ==
  \A d \in Episodes :
    (Drained(d) /\ drainTimeout[d] = Undefined) ~> (drainResult[d] = "true")

\* a drain without timeout resolved true although all its producers failed
C3_Witness ==
  \E d \in Episodes :
    /\ Drained(d)
    /\ drainTimeout[d] = Undefined
    /\ Len(drainTasks[d]) >= 2
    /\ \A p \in Tasks(d) : outcome[p] = "failed"
    /\ drainResult[d] = "true"

\* ---- C4 -----------------------------------------------------------------
\* C4: the future returned by drain never rejects: it is unresolved, true or
\* false; every detached producer has been started whatever the others did;
\* and once all detached producers have settled (succeeded or failed) and the
\* continuation has run, the drain is resolved.
C4_DrainNeverRejects ==
  \A d \in Episodes :
    /\ drainResult[d] \in {"none", "unresolved", "true", "false"}
    /\ Drained(d) => \A p \in Tasks(d) : outcome[p] # "none"
    /\ (Drained(d) /\ (\A p \in Tasks(d) : IsSettled(p))
          /\ ~ContinuationPending(d))
         => drainResult[d] \in {"true", "false"}

\* the first producer of a drain failed, a later one succeeded, drain resolved
C4_Witness ==
  \E d \in Episodes :
    /\ Len(drainTasks[d]) >= 2
    /\ outcome[drainTasks[d][1]] = "failed"
    /\ outcome[drainTasks[d][2]] = "ok"
    /\ drainResult[d] \in {"true", "false"}

\* ---- C5 -----------------------------------------------------------------
\* C5: when the timer of a drain(t), t > 0, fires while one of the producers
\* detached by that drain is unsettled, the drain resolves false; the
\* producer is not cancelled (its future is untouched and settles later).
C5_TimeoutResolvesFalse ==
  [][\A d \in Episodes :
       (/\ timer[d] = "armed"
        /\ timer'[d] = "fired"
        /\ IsPositive(drainTimeout[d])
        /\ \E p \in Tasks(d) : outcome[p] = "running")
         => /\ drainResult'[d] = "false"
            /\ outcome' = outcome
            /\ wrapped' = wrapped]_vars

\* a drain resolved false and one of its producers settled afterwards
C5_Witness ==
  \E d \in Episodes :
    /\ IsPositive(drainTimeout[d])
    /\ drainResult[d] = "false"
    /\ \E p \in Tasks(d) : p \in lateSettle /\ IsSettled(p)

\* ---- C6 -----------------------------------------------------------------
\* C6: a drain's result is true only if every producer it detached has
\* settled; and if all of them settled before the timer fired, the result is
\* true, not false.
C6_TrueOnlyWhenAllSettled ==
  \A d \in Episodes :
    /\ drainResult[d] = "true" => \A p \in Tasks(d) : IsSettled(p)
    /\ (allDone[d] /\ timer[d] = "cleared") => drainResult[d] = "true"
    /\ drainResult[d] = "false" => timer[d] = "fired"

\* a drain with a positive timeout resolved true after two producers settled
C6_Witness ==
  \E d \in Episodes :
    /\ IsPositive(drainTimeout[d])
    /\ Len(drainTasks[d]) >= 2
    /\ \E p \in Tasks(d) : outcome[p] = "failed"
    /\ \E p \in Tasks(d) : outcome[p] = "ok"
    /\ timer[d] = "cleared"
    /\ drainResult[d] = "true"

\* ---- C7 -----------------------------------------------------------------
\* C7: a drain call leaves the pending list empty, and each of the next
\* bufferSize add calls after it succeeds, whatever the state of the
\* producers and of the drains in flight; no add changes the producers of an
\* earlier drain.
C7_AddAfterDrainSucceeds ==
  [][/\ nDrains' = nDrains + 1 => taskProducers' = <<>>
     /\ (nAdds' = nAdds + 1 /\ nDrains >= 1 /\ addsSinceDrain < bufferSize)
          => /\ addResult'[nAdds'] = "resolved"
             /\ nAdds' \in Range(taskProducers')
             /\ drainTasks' = drainTasks
             /\ \A d \in Episodes : nAdds' \notin Tasks(d)]_vars

\* bufferSize adds succeeded after a drain that is unresolved and running
C7_Witness ==
  /\ bufferSize >= 1
  /\ addsSinceDrain = bufferSize
  /\ Len(taskProducers) = bufferSize
  /\ \E d \in Episodes :
       /\ d = nDrains
       /\ drainResult[d] = "unresolved"
       /\ \E p \in Tasks(d) : outcome[p] = "running"

\* ---- C8 -----------------------------------------------------------------
\* C8: a producer in the pending list was admitted with a resolved future and
\* has not been invoked; every invoked producer was admitted and is among the
\* producers detached by some drain call.
C8_DeferredStart ==
  /\ \A p \in Range(taskProducers) :
       /\ addResult[p] = "resolved"
       /\ outcome[p] = "none"
       /\ p \notin Range(invokeLog)
  /\ \A p \in Producers :
       (outcome[p] # "none" \/ p \in Range(invokeLog))
         => /\ addResult[p] = "resolved"
            /\ \E d \in Episodes : Drained(d) /\ p \in Tasks(d)

\* a producer waits in the pending list while an earlier one has been run
C8_Witness ==
  /\ \E p \in Range(taskProducers) :
       addResult[p] = "resolved" /\ outcome[p] = "none"
  /\ \E q \in Producers : IsSettled(q)
  /\ nDrains >= 1

\* ---- C9 -----------------------------------------------------------------
\* C9: a producer whose add was refused with buffer-full is never invoked,
\* is in no pending list and belongs to no drain; the future the caller
\* received from add is rejected with the buffer-full error.
C9_RejectedNeverSent ==
  \A p \in Producers :
    (p <= nAdds /\ ~(\E d \in Episodes : p \in Tasks(d))
       /\ p \notin Range(taskProducers))
      <=> addResult[p] = "rejected_buffer_full"

C10_FailureReachesAddFuture ==
  \A p \in Producers : outcome[p] = "failed" => IsRejected(addResult[p])

\* C10 (amended): when a producer's call fails, the future obtained from add
\* for that producer is, and stays, the future resolved at admission; the
\* drain that ran the producer still resolves true once its producers have
\* settled, unless its timer resolved it false before.
C10_FailureNotDeliveredByAdd ==
  \A p \in Producers :
    outcome[p] = "failed"
      => /\ addResult[p] = "resolved"
         /\ \A d \in Episodes :
              (p \in Tasks(d) /\ (\A q \in Tasks(d) : IsSettled(q))
                 /\ ~ContinuationPending(d))
                => \/ drainResult[d] = "true"
                   \/ drainResult[d] = "false" /\ timer[d] = "fired"

\* a producer failed, its add future is resolved, and its drain resolved true
C10_Witness ==
  \E p \in Producers, d \in Episodes :
    /\ p \in Tasks(d)
    /\ outcome[p] = "failed"
    /\ addResult[p] = "resolved"
    /\ drainResult[d] = "true"

C12_OwnProducersDecide ==
  \A d \in Episodes :
    /\ \A e \in Episodes : d # e => Tasks(d) \cap Tasks(e) = {}
    /\ (Drained(d) /\ (\A p \in Tasks(d) : IsSettled(p))
          /\ ~ContinuationPending(d))
         => /\ allDone[d]
            /\ timer[d] # "fired" => drainResult[d] = "true"
            /\ drainResult[d] \in {"true", "false"}

C12_OwnStepsDecide ==
  \A d \in Episodes :
    (Drained(d) /\ drainResult'[d] # drainResult[d])
      => \/ timer[d] = "armed" /\ timer'[d] = "fired"
         \/ ~allDone[d] /\ allDone'[d]

C12_IndependentEpisodes == [](C12_OwnProducersDecide) /\ [][C12_OwnStepsDecide]_vars

\* the second drain resolved true from its own producer while the first
\* drain's producer is still running, its timer having resolved it false
C12_Witness ==
  \E d, e \in Episodes :
    /\ d < e
    /\ \E p \in Tasks(d) : outcome[p] = "running"
    /\ drainResult[d] = "false"
    /\ Tasks(e) # {}
    /\ drainResult[e] = "true"

\* ---- C15 ----------------------------------------------------------------
\* C15: a drain call starts every producer it detached, in the order they
\* were added and within the call itself: the producers it detached are the
\* pending list, they are appended to the invocation order as they stand, and
\* all of them are running when the call returns, whatever the state of the
\* producers added before them.
C15_DrainStep ==
  nDrains' = nDrains + 1
    => /\ drainTasks'[nDrains'] = taskProducers
       /\ invokeLog' = invokeLog \o taskProducers
       /\ \A p \in Range(taskProducers) : outcome'[p] = "running"

C15_StartedInOrder ==
  /\ \A i, j \in 1..Len(invokeLog) : i < j => invokeLog[i] < invokeLog[j]
  /\ \A d \in Episodes : \A p \in Tasks(d) : outcome[p] # "none"

C15_AllStartedInDrain == [](C15_StartedInOrder) /\ [][C15_DrainStep]_vars

\* two producers detached by one drain are both running: the second was
\* started although the first has not settled
C15_Witness ==
  \E d \in Episodes :
    /\ Len(drainTasks[d]) >= 2
    /\ invokeLog = drainTasks[d]
    /\ \A p \in Tasks(d) : outcome[p] = "running"

\* ---- C16 ----------------------------------------------------------------
\* C16: a drain whose timeout is absent, zero or negative never resolves
\* false: while one of its producers is unsettled it is unresolved, also after
\* its timer has fired, and once its continuation has run it is true.
C16_NoTimeoutNeverFalse ==
  \A d \in Episodes :
    (Drained(d) /\ ~IsPositive(drainTimeout[d]))
      => /\ drainResult[d] # "false"
         /\ (\E p \in Tasks(d) : ~IsSettled(p)) => drainResult[d] = "unresolved"
         /\ allDone[d] => drainResult[d] = "true"

\* the timer of a drain with a negative timeout has fired while its producer
\* runs, and the drain is unresolved
C16_Witness ==
  \E d \in Episodes :
    /\ drainTimeout[d] = <<-1>>
    /\ timer[d] = "fired"
    /\ \E p \in Tasks(d) : outcome[p] = "running"
    /\ drainResult[d] = "unresolved"

C18_Count(p) == Cardinality({i \in 1..Len(invokeLog) : invokeLog[i] = p})

C18_State ==
  \A p \in Producers :
    /\ C18_Count(p) <= 1
    /\ addResult[p] = "resolved"
         => /\ p \in Range(taskProducers) <=> C18_Count(p) = 0
            /\ C18_Count(p) = 1
                 <=> Cardinality({d \in Episodes : p \in Tasks(d)}) = 1
            /\ Cardinality({d \in Episodes : p \in Tasks(d)}) <= 1
    /\ addsSinceDrain = 0 /\ addResult[p] = "resolved" /\ nDrains >= 1
         => C18_Count(p) = 1

C18_Step ==
  /\ (nDrains' = nDrains /\ nAdds' = nAdds) => taskProducers' = taskProducers
  /\ nDrains' = nDrains + 1
       => /\ taskProducers' = <<>>
          /\ \A p \in Range(taskProducers) :
               C18_Count(p) = 0 /\ C18_Count(p)' = 1
          /\ \A p \in Producers \ Range(taskProducers) :
               C18_Count(p)' = C18_Count(p)

C18_InvokedExactlyOnce == [](C18_State) /\ [][C18_Step]_vars

\* the first drain timed out with a failed producer; a second drain has run
\* and the producer has been invoked once and is not pending
C18_Witness ==
  \E p \in Producers :
    /\ p \in Tasks(1)
    /\ drainResult[1] = "false"
    /\ outcome[p] = "failed"
    /\ nDrains >= 2
    /\ allDone[2]
    /\ C18_Count(p) = 1
    /\ p \notin Range(taskProducers)

\* ---- C19 ----------------------------------------------------------------
\* C19: a drain's result is assigned once: once it is true or false no later
\* step (a settlement, a continuation, a timer) changes it.
C19_ResultStable ==
  [][\A d \in Episodes :
       drainResult[d] \in {"true", "false"}
         => drainResult'[d] = drainResult[d]]_vars

\* a drain resolved false on timeout; all its producers settled afterwards,
\* its continuation ran, and the result is still false
C19_Witness ==
  \E d \in Episodes :
    /\ drainResult[d] = "false"
    /\ Tasks(d) # {}
    /\ \A p \in Tasks(d) : IsSettled(p) /\ p \in lateSettle
    /\ allDone[d]

\* ---- C20 ----------------------------------------------------------------
\* C20: a drain called while the pending list is empty eventually resolves
\* true for every timeout value; it never resolves false (its timer never
\* fires before the continuation has run) and it leaves the pending list
\* empty.
C20_EmptyDrainState ==
  \A d \in Episodes :
    (Drained(d) /\ drainTasks[d] = <<>>)
      => /\ drainResult[d] \in {"unresolved", "true"}
         /\ timer[d] \in {"armed", "cleared"}
         /\ allDone[d] <=> drainResult[d] = "true"

C20_EmptyDrainStep ==
  (nDrains' = nDrains + 1 /\ taskProducers = <<>>)
    => taskProducers' = <<>> /\ drainTasks'[nDrains'] = <<>>

C20_EmptyDrainResolvesTrue ==
  /\ [](C20_EmptyDrainState)
  /\ [][C20_EmptyDrainStep]_vars
  /\ \A d \in Episodes :
       (Drained(d) /\ drainTasks[d] = <<>>) ~> (drainResult[d] = "true")

\* a drain of an empty list with a positive timeout has resolved true while
\* an earlier drain's producer is still running
C20_Witness ==
  \E d \in Episodes :
    /\ drainTasks[d] = <<>>
    /\ IsPositive(drainTimeout[d])
    /\ drainResult[d] = "true"
    /\ timer[d] = "cleared"
    /\ taskProducers = <<>>
    /\ \E p \in Producers : outcome[p] = "running"

\* ---- helpers of the request properties ----------------------------------
Called == fetchCall # Undefined

Sent == fetchCall[1].init

SentHeaders == IF Sent["headers"] = Undefined THEN <<>> ELSE Sent["headers"][1]

HasBothHeaders ==
  /\ options.headers # Undefined
  /\ "headers" \in DOMAIN Overlay(options)

\* ---- C13 ----------------------------------------------------------------
\* C13 as stated: for every configuration and request the outbound call uses
\* method POST, referrerPolicy origin and request.body as its body.
C13_FixedMethodPolicyBody ==
  Called => /\ Sent["method"] = "POST"
            /\ Sent["referrerPolicy"] = "origin"
            /\ Sent["body"] = fetchCall[1].request.body

\* C13 (amended): the outbound call goes to options.url and uses method POST,
\* referrerPolicy origin and request.body, each unless fetchOptions sets that
\* field itself, in which case the value of fetchOptions is used.
C13_FixedUnlessOverlaid ==
  Called =>
    LET over == Overlay(options)
        fixed == [method |-> "POST", referrerPolicy |-> "origin",
                  body |-> fetchCall[1].request.body]
    IN /\ fetchCall[1].url = options.url
       /\ \A f \in {"method", "referrerPolicy", "body"} :
            Sent[f] = IF f \in DOMAIN over THEN over[f] ELSE fixed[f]

\* a request was issued with fetchOptions that set a method of their own but
\* no body: the call uses GET and the request's body
C13_Witness ==
  /\ Called
  /\ "method" \in DOMAIN Overlay(options)
  /\ "body" \notin DOMAIN Overlay(options)
  /\ Sent["method"] = "GET"
  /\ Sent["body"] = fetchCall[1].request.body

\* ---- C14 ----------------------------------------------------------------
\* C14 as stated: when both options.headers and fetchOptions carry headers,
\* the headers sent are the merge of the two: every fixed header whose name
\* is not among the overlay's is sent, and the overlay's value is used for a
\* name in both.
C14_HeadersMerged ==
  (Called /\ HasBothHeaders) =>
    LET fixed == options.headers[1]
        over == Overlay(options)["headers"][1]
    IN /\ \A n \in DOMAIN fixed \ DOMAIN over :
            n \in DOMAIN SentHeaders /\ SentHeaders[n] = fixed[n]
       /\ \A n \in DOMAIN over :
            n \in DOMAIN SentHeaders /\ SentHeaders[n] = over[n]

\* C14 (amended): when both carry headers, the headers sent are exactly the
\* overlay's headers: they replace options.headers as a whole; options.headers
\* are sent when fetchOptions has no headers field.
C14_HeadersReplaced ==
  Called =>
    Sent["headers"] = IF "headers" \in DOMAIN Overlay(options)
                        THEN Overlay(options)["headers"]
                        ELSE options.headers

\* both carry headers, a fixed header is not among the overlay's, and the
\* call was issued without it
C14_Witness ==
  /\ Called
  /\ HasBothHeaders
  /\ \E n \in DOMAIN options.headers[1] :
       /\ n \notin DOMAIN Overlay(options)["headers"][1]
       /\ n \notin DOMAIN SentHeaders
  /\ DOMAIN SentHeaders # {}
====
